---- MODULE Spec2Model ----
EXTENDS Integers, Sequences, FiniteSets, TLC

\* Comparison page controller (compare page <script setup>) and tab strip
\* (components/tabs.vue) as a state machine over one page load.

\* JavaScript null of an object-typed reference and of a Tab-typed value.
Null == [null |-> TRUE]
NoTab == "null"
Absent == "absent"

\* Tab enum (pages/compare/types.ts): its values are the URL tokens.
CompileTime == "compile"
Runtime == "runtime"
Bootstrap == "bootstrap"
ArtifactSize == "artifact-size"
TabIds == {CompileTime, Runtime, Bootstrap, ArtifactSize}

\* Own keys of Object.prototype reachable through a lookup on a plain object
\* literal (the `tabs[tab]` lookup in loadTabFromUrl).
ObjectProtoKeys == {"constructor", "toString", "valueOf", "hasOwnProperty",
                    "isPrototypeOf", "propertyIsEnumerable", "toLocaleString",
                    "__proto__", "__defineGetter__", "__defineSetter__",
                    "__lookupGetter__", "__lookupSetter__"}

\* URL query keys and the values the page can be opened with.
UrlKeys == {"start", "end", "stat", "tab"}
TabParamValues == {Absent, "", "compile", "runtime", "bootstrap",
                   "artifact-size", "Compile", "constructor", "toString",
                   "__defineGetter__"}
StartParamValues == {Absent, "2023-01-01"}

\* CompareResponse values the server can answer with.
BootstrapTotals == {0, 1500000000, 2000000000}
ComponentSizes == {<<>>, <<0>>, <<4096>>}
Comparisons == {<<>>, <<TRUE, FALSE>>}
Artifacts == [bootstrap_total : BootstrapTotals, component_sizes : ComponentSizes]
Responses == [a : Artifacts, b : Artifacts,
              compile_comparisons : Comparisons,
              runtime_comparisons : Comparisons]

VARIABLES query, tab, initialTab, data, pending, loading, reqPc, setupPc,
          compileSummary, runtimeSummary, tabsDesc, childActive, emitted,
          event, fv, fout

vars == <<query, tab, initialTab, data, pending, loading, reqPc, setupPc,
          compileSummary, runtimeSummary, tabsDesc, childActive, emitted,
          event, fv, fout>>

----------------------------------------------------------------------------
\* URL utilities

\* getUrlParams(): the present query parameters as a dictionary.
GetUrlParams(q) == [k \in {x \in UrlKeys : q[x] # Absent} |-> q[k]]

\* changeUrl(params): sets every key of params into the current URL.
ChangeUrl(q, params) ==
  [k \in UrlKeys |-> IF k \in DOMAIN params THEN params[k] ELSE q[k]]

\* JavaScript property read `obj[key] ?? d` on a plain object literal whose
\* own entries are `own`: own key, else inherited Object.prototype member,
\* else the default.
LookupOr(own, key, d) ==
  IF key \in DOMAIN own THEN own[key]
  ELSE IF key \in ObjectProtoKeys THEN "Object.prototype." \o key
  ELSE d

DictGet(dict, key, d) == IF key \in DOMAIN dict THEN dict[key] ELSE d

loadSelectorFromUrl(p) ==
  [start |-> DictGet(p, "start", ""), end |-> DictGet(p, "end", ""),
   stat |-> DictGet(p, "stat", "instructions:u")]

TabTable == [x \in {"compile", "runtime", "bootstrap", "artifact-size"} |->
               CASE x = "compile" -> CompileTime
                 [] x = "runtime" -> Runtime
                 [] x = "bootstrap" -> Bootstrap
                 [] x = "artifact-size" -> ArtifactSize]

loadTabFromUrl(p) == LookupOr(TabTable, DictGet(p, "tab", ""), NoTab)

InitialTabOf(p) == IF loadTabFromUrl(p) = NoTab THEN CompileTime ELSE loadTabFromUrl(p)

storeTabToUrlOnlyTab(q, t) ==
  ChangeUrl([k \in UrlKeys |-> Absent], [k \in {"tab"} |-> t])

storeTabToUrl(q, t) ==
  ChangeUrl(q, [k \in DOMAIN GetUrlParams(q) \cup {"tab"} |->
                  IF k = "tab" THEN t ELSE GetUrlParams(q)[k]])

----------------------------------------------------------------------------
\* Summaries (data.ts, compile/common, runtime/common)

ComputeComparisonsWithNonRelevant(cs) == cs
FilterNonRelevant(cs) == SelectSeq(cs, LAMBDA c : c)
ComputeSummary(cs) == [all |-> [count |-> Len(cs)]]

CompileSummaryOfUnfiltered(r) ==
  ComputeSummary(ComputeComparisonsWithNonRelevant(r.compile_comparisons))

CompileSummaryOf(r) ==
  ComputeSummary(FilterNonRelevant(
    ComputeComparisonsWithNonRelevant(r.compile_comparisons)))
RuntimeSummaryOf(r) ==
  ComputeSummary(FilterNonRelevant(
    ComputeComparisonsWithNonRelevant(r.runtime_comparisons)))

----------------------------------------------------------------------------
\* Formatting helpers

DigitChar == <<"0", "1", "2", "3", "4", "5", "6", "7", "8", "9">>
Digit(d) == DigitChar[d + 1]

RECURSIVE Digits(_)
Digits(n) == IF n < 10 THEN <<Digit(n)>> ELSE Digits(n \div 10) \o <<Digit(n % 10)>>

Placeholder == <<"?", "?", "?">>

\* the literal 10e8 of formatBootstrap
NsPerSecond == 1000000000

\* value / 10e8 is the double nearest to v / 10^9: its 53-bit significand is
\* v * 2^s / 10^9 rounded, with s = 52 - floor(log2(v / 10^9)).
FloorLog2Seconds(v) ==
  IF v >= 2 * NsPerSecond THEN 1
  ELSE IF v >= NsPerSecond THEN 0
  ELSE LET js == {j \in 1..30 : v >= (NsPerSecond + 2^j - 1) \div 2^j}
       IN -(CHOOSE j \in js : \A i \in js : j <= i)

\* 10^9 = 2^9 * 5^9; arithmetic modulo 5^9 kept within 32-bit integers.
FivePow9 == 1953125

\* (a * b) mod 5^9 for a, b < 5^9, a split into three 7-bit limbs.
MulModFive(a, b) ==
  LET t2 == ((a \div 16384) * b) % FivePow9
      t1 == (t2 * 128 + ((a \div 128) % 128) * b) % FivePow9
  IN (t1 * 128 + (a % 128) * b) % FivePow9

\* 2^e mod 5^9 for 0 <= e < 80
Pow2ModFive(e) ==
  LET p20 == 2^20 % FivePow9
      t == 2^(e % 20) % FivePow9
  IN CASE e \div 20 = 0 -> t
       [] e \div 20 = 1 -> MulModFive(t, p20)
       [] e \div 20 = 2 -> MulModFive(MulModFive(t, p20), p20)
       [] e \div 20 = 3 -> MulModFive(MulModFive(MulModFive(t, p20), p20), p20)

\* (v * 2^s) mod 10^9: the part of the significand the division rounds away
\* (s >= 51, so it is 2^9 * ((v * 2^(s-9)) mod 5^9)). A remainder of exactly
\* 10^9 / 2 cannot occur, so the double is exact (0), above (> 10^9 / 2) or
\* below the exact quotient.
DivisionRemainder(v) ==
  512 * MulModFive(v % FivePow9, Pow2ModFive(52 - FloorLog2Seconds(v) - 9))

DoubleAboveExact(v) == 2 * DivisionRemainder(v) > NsPerSecond
DoubleExact(v) == DivisionRemainder(v) = 0

\* Number.prototype.toFixed(3) of the double x = value / 10e8 for v > 0: the
\* integer n with n / 1000 - x closest to zero (the larger one on a tie).
\* Away from an exact half-thousandth the double's error cannot change n;
\* at v / 10^6 = k + 1/2 the double lies above, below or on the midpoint.
ToFixed3(v) ==
  LET unit == NsPerSecond \div 1000
      k == v \div unit
      half == unit \div 2
      n == IF v % unit > half THEN k + 1
           ELSE IF v % unit < half THEN k
           ELSE IF DoubleExact(v) \/ DoubleAboveExact(v) THEN k + 1
           ELSE k
  IN Digits(n \div 1000) \o <<".">> \o
     <<Digit(n \div 100 % 10), Digit(n \div 10 % 10), Digit(n % 10)>>

formatBootstrapNonNeg(value) == IF value >= 0 THEN ToFixed3(value) ELSE Placeholder

formatBootstrap(value) == IF value > 0 THEN ToFixed3(value) ELSE Placeholder

\* formatSize (shared.ts): a human-readable size string.
formatSize(size) == Digits(size) \o <<" ", "B">>

formatArtifactSize(size) == IF size = 0 THEN Placeholder ELSE formatSize(size)

\* diffClass (shared.ts)
diffClass(diff) == IF diff > 1 THEN "positive" ELSE IF diff < -1 THEN "negative" ELSE ""

Abs(x) == IF x < 0 THEN -x ELSE x

\* Object.values(sizes).reduce((a, b) => a + b, 0)
RECURSIVE TotalSize(_)
TotalSize(s) == IF s = <<>> THEN 0 ELSE Head(s) + TotalSize(Tail(s))

bootstrapValidEither(a, b) == a > 0 \/ b > 0
bootstrapValidNonNeg(a, b) == a >= 0 /\ b >= 0

bootstrapValid(a, b) == a > 0 /\ b > 0

\* Bootstrap tab summary: the text and, when rendered, the delta indicator
\* with the baseline the percent change divides by.
BootstrapSummary(a, b) ==
  [text |-> <<formatBootstrap(a), "->", formatBootstrap(b)>>,
   delta |-> IF bootstrapValid(a, b)
               THEN [cls |-> diffClass(b - a), diff |-> b - a, pctBase |-> a]
               ELSE Null]

sizesAvailable(ta, tb) == ta > 0 \/ tb > 0
bothSizesAvailable(ta, tb) == ta > 0 /\ tb > 0

ArtifactSizeSummary(ta, tb) ==
  [text |-> <<formatArtifactSize(ta), "->", formatArtifactSize(tb)>>,
   delta |-> IF bothSizesAvailable(ta, tb)
               THEN [cls |-> diffClass(tb - ta), diff |-> Abs(tb - ta),
                     neg |-> tb < ta, pctBase |-> ta]
               ELSE Null]

\* The `tabs` descriptor list, built once from data.value and activeTab.
BuildTabs(d, act, cs, rs) ==
  LET ta == TotalSize(d.a.component_sizes)
      tb == TotalSize(d.b.component_sizes)
  IN [id \in TabIds |->
        CASE id = CompileTime ->
               [selected |-> act = CompileTime, isVisible |-> TRUE, summary |-> cs]
          [] id = Runtime ->
               [selected |-> act = Runtime, isVisible |-> TRUE, summary |-> rs]
          [] id = Bootstrap ->
               [selected |-> act = Bootstrap, isVisible |-> TRUE,
                summary |-> BootstrapSummary(d.a.bootstrap_total, d.b.bootstrap_total)]
          [] id = ArtifactSize ->
               [selected |-> act = ArtifactSize, isVisible |-> sizesAvailable(ta, tb),
                summary |-> ArtifactSizeSummary(ta, tb)]]

VisibleTabs == IF tabsDesc = Null THEN {} ELSE {id \in TabIds : tabsDesc[id].isVisible}

----------------------------------------------------------------------------
\* Derived state of the controller

artifactSizeAvailable ==
  data # Null /\ (Len(data.a.component_sizes) > 0 \/ Len(data.b.component_sizes) > 0)

activeTab ==
  IF tab = ArtifactSize /\ ~artifactSizeAvailable THEN CompileTime ELSE tab

----------------------------------------------------------------------------
\* Actions

InitMain ==
  /\ \E ps \in StartParamValues, pt \in TabParamValues :
        query = [k \in UrlKeys |-> CASE k = "start" -> ps
                                      [] k = "tab" -> pt
                                      [] OTHER -> Absent]
  /\ initialTab = InitialTabOf(GetUrlParams(query))
  /\ tab = initialTab
  /\ compileSummary = Null
  /\ runtimeSummary = Null
  /\ data = Null
  /\ pending = Null
  \* withLoading sets the flag before the request suspends
  /\ loading = TRUE
  /\ reqPc = "inflight"
  /\ setupPc = "awaitInfo"
  /\ tabsDesc = Null
  /\ childActive = NoTab
  /\ emitted = NoTab
  /\ event = "init"

Init == InitMain /\ fv = 0 /\ fout = <<>>

\* postMsgpack resolves; withLoading's finally clears the flag.
DataResponse ==
  /\ reqPc = "inflight"
  /\ \E r \in Responses : pending' = r
  /\ loading' = FALSE
  /\ reqPc' = "resolved"
  /\ event' = "dataResponse"
  /\ UNCHANGED <<query, tab, initialTab, data, setupPc, compileSummary,
                 runtimeSummary, tabsDesc, childActive, emitted, fv, fout>>

\* postMsgpack rejects; withLoading's finally clears the flag and the
\* rejection leaves data.value null.
DataFailure ==
  /\ reqPc = "inflight"
  /\ loading' = FALSE
  /\ reqPc' = "failed"
  /\ event' = "dataFailure"
  /\ UNCHANGED <<query, tab, initialTab, data, pending, setupPc, compileSummary,
                 runtimeSummary, tabsDesc, childActive, emitted, fv, fout>>

\* Continuation of loadCompareData after `await withLoading(...)`.
loadCompareData ==
  /\ reqPc = "resolved"
  /\ data' = pending
  /\ compileSummary' = CompileSummaryOf(pending)
  /\ runtimeSummary' = RuntimeSummaryOf(pending)
  /\ reqPc' = "done"
  /\ event' = "dataAssigned"
  /\ UNCHANGED <<query, tab, initialTab, pending, loading, setupPc,
                 tabsDesc, childActive, emitted, fv, fout>>

\* `await loadBenchmarkInfo()` resumes: the rest of setup runs synchronously,
\* reading data.value.a / data.value.b; on a null data.value it throws.
SetupResume ==
  /\ setupPc = "awaitInfo"
  /\ IF data = Null
       THEN /\ setupPc' = "nullRead"
            /\ UNCHANGED <<tabsDesc, childActive>>
       ELSE /\ setupPc' = "ready"
            /\ tabsDesc' = BuildTabs(data, activeTab, compileSummary, runtimeSummary)
            /\ childActive' = initialTab
  /\ event' = "setupResumed"
  /\ UNCHANGED <<query, tab, initialTab, data, pending, loading, reqPc,
                 compileSummary, runtimeSummary, emitted, fv, fout>>

\* loadBenchmarkInfo rejects: setup throws.
SetupInfoFailure ==
  /\ setupPc = "awaitInfo"
  /\ setupPc' = "infoFailed"
  /\ event' = "infoFailed"
  /\ UNCHANGED <<query, tab, initialTab, data, pending, loading, reqPc,
                 compileSummary, runtimeSummary, tabsDesc, childActive,
                 emitted, fv, fout>>

\* Click on a visible tab of the strip: tabs.vue changeTab sets its own
\* activeTab and emits changeTab, handled by the page's changeTab.
changeTab ==
  /\ setupPc = "ready"
  /\ \E t \in VisibleTabs :
        /\ childActive' = t
        /\ emitted' = t
        /\ tab' = t
        /\ query' = storeTabToUrl(query, t)
  /\ event' = "changeTab"
  /\ UNCHANGED <<initialTab, data, pending, loading, reqPc, setupPc,
                 compileSummary, runtimeSummary, tabsDesc, fv, fout>>

Next == DataResponse \/ DataFailure \/ loadCompareData \/ SetupResume
        \/ SetupInfoFailure \/ changeTab

Spec == Init /\ [][Next]_vars

----------------------------------------------------------------------------
\* formatBootstrap applied to bootstrap durations (nanoseconds).

MaxK == 20
FmtInputs == {-5, -1, 0, 62500000, 999999999, 1000000000, 1000500000,
              1500500000, 2000000000, 2140000000}
             \cup {k * 20000000 + d : k \in 0..MaxK,
                                      d \in {0, 1, 499999, 500000, 999999}}

FormatStep ==
  /\ fout = <<>>
  /\ fout' = formatBootstrap(fv)
  /\ UNCHANGED <<query, tab, initialTab, data, pending, loading, reqPc, setupPc,
                 compileSummary, runtimeSummary, tabsDesc, childActive, emitted,
                 event, fv>>

InitFmt == InitMain /\ fv \in FmtInputs /\ fout = <<>>

NextFmt == FormatStep

SpecFmt == InitFmt /\ [][NextFmt]_vars

----------------------------------------------------------------------------
\* Properties

ExpectedTab(s) ==
  CASE s = "compile" -> CompileTime
    [] s = "runtime" -> Runtime
    [] s = "bootstrap" -> Bootstrap
    [] s = "artifact-size" -> ArtifactSize
    [] OTHER -> NoTab

\* C1: for every value of the `tab` URL parameter (absent and empty included)
\* loadTabFromUrl yields the tab of the four recognised tokens and null for
\* any other string; the initial tab is that tab, or CompileTime on null.
C1_LoadTabFromUrl ==
  event = "init" =>
    /\ loadTabFromUrl(GetUrlParams(query)) = ExpectedTab(query["tab"])
    /\ initialTab = IF ExpectedTab(query["tab"]) = NoTab
                      THEN CompileTime ELSE ExpectedTab(query["tab"])

\* C2: once the tab list is built, the effective tab is the id of a visible
\* tab; a stored ArtifactSize tab without artifact-size data shows as
\* CompileTime, and the stored tab changes only through changeTab.
C2_ActiveTabVisible ==
  /\ [](setupPc = "ready" =>
         /\ activeTab \in VisibleTabs
         /\ (tab = ArtifactSize /\ ~artifactSizeAvailable => activeTab = CompileTime))
  /\ [][tab' # tab => event' = "changeTab"]_vars

SizesNonZero(d) ==
  \E side \in {d.a, d.b} :
    /\ Len(side.component_sizes) > 0
    /\ \E i \in DOMAIN side.component_sizes : side.component_sizes[i] # 0

\* C3: the artifact-size tab is visible iff one side has a non-empty
\* component-size mapping with a non-zero sum, and artifactSizeAvailable
\* agrees with that condition.
C3_ArtifactSizeVisibility ==
  setupPc = "ready" =>
    /\ (tabsDesc[ArtifactSize].isVisible <=> SizesNonZero(data))
    /\ (artifactSizeAvailable <=> SizesNonZero(data))

\* C4: changeTab(t) stores t and writes tab=t to the URL, leaving every other
\* query parameter as it was; storing the same tab twice equals storing it once.
C4_ChangeTabUrl ==
  /\ [][event' = "changeTab" =>
         /\ tab' = emitted'
         /\ query'["tab"] = emitted'
         /\ \A k \in UrlKeys \ {"tab"} : query'[k] = query[k]]_vars
  /\ [](\A t \in TabIds :
         storeTabToUrl(storeTabToUrl(query, t), t) = storeTabToUrl(query, t))

C4_Witness ==
  /\ event = "changeTab"
  /\ emitted = Runtime
  /\ query["start"] = "2023-01-01"

\* C5: the tab marked selected in the strip is the page's effective tab.
C5_SelectedMatchesActive ==
  setupPc = "ready" =>
    \A id \in VisibleTabs : tabsDesc[id].selected <=> id = activeTab

\* C6: the tab descriptors are never built while data.value is null.
C6_NoBuildOnNullData == setupPc # "nullRead"

RelevantCount(cs) == Cardinality({i \in DOMAIN cs : cs[i]})

\* C7: the summaries are null until data.value is set and are assigned once,
\* together with it, from the relevant comparisons; the loading flag is set
\* while the request is in flight and cleared after it completes.
C7_SummariesOnce ==
  /\ [](/\ (compileSummary = Null <=> data = Null)
        /\ (runtimeSummary = Null <=> data = Null)
        /\ (data # Null =>
              /\ compileSummary.all.count = RelevantCount(data.compile_comparisons)
              /\ runtimeSummary.all.count = RelevantCount(data.runtime_comparisons))
        /\ (reqPc = "inflight" => loading)
        /\ (reqPc \in {"resolved", "done", "failed"} => ~loading))
  /\ [][(compileSummary' # compileSummary \/ runtimeSummary' # runtimeSummary) =>
         /\ compileSummary = Null /\ runtimeSummary = Null
         /\ data = Null /\ data' # Null]_vars

C7_Witness ==
  /\ setupPc = "ready"
  /\ compileSummary # Null
  /\ compileSummary.all.count = 1
  /\ runtimeSummary.all.count = 1

CharVal(c) == CHOOSE d \in 0..9 : <<"0", "1", "2", "3", "4", "5", "6", "7", "8", "9">>[d + 1] = c

RECURSIVE ParseDigits(_)
ParseDigits(cs) == IF cs = <<>> THEN 0
                   ELSE ParseDigits(SubSeq(cs, 1, Len(cs) - 1)) * 10 + CharVal(cs[Len(cs)])

IsDigitChar(c) == c \in {"0", "1", "2", "3", "4", "5", "6", "7", "8", "9"}

\* C8: formatBootstrap(v) is "???" for v <= 0 and otherwise v / 10^9 written
\* with exactly three decimal places (read back, within half a thousandth).
C8_FormatBootstrap ==
  fout # <<>> =>
    IF fv <= 0 THEN fout = <<"?", "?", "?">>
    ELSE \E i \in 2..Len(fout) :
           /\ fout[i] = "."
           /\ Len(fout) - i = 3
           /\ \A j \in DOMAIN fout \ {i} : IsDigitChar(fout[j])
           /\ LET x == ParseDigits(SubSeq(fout, 1, i - 1)) * 1000000000
                       + ParseDigits(SubSeq(fout, i + 1, Len(fout))) * 1000000 - fv
              IN x <= 500000 /\ -x <= 500000

C8_Witness == fout # <<>> /\ fv = 2000000000

\* C9: the bootstrap summary has a delta indicator exactly when both
\* bootstrap totals are positive; with both zero it is only "??? -> ???".
C9_BootstrapDelta ==
  setupPc = "ready" =>
    LET s == tabsDesc[Bootstrap].summary
        a == data.a.bootstrap_total
        b == data.b.bootstrap_total
    IN /\ (s.delta # Null <=> (a > 0 /\ b > 0))
       /\ (a = 0 /\ b = 0 =>
             /\ s.text = <<<<"?", "?", "?">>, "->", <<"?", "?", "?">>>>
             /\ s.delta = Null)

C9_Witness ==
  /\ setupPc = "ready"
  /\ data.a.bootstrap_total > 0
  /\ data.b.bootstrap_total > data.a.bootstrap_total
  /\ tabsDesc[Bootstrap].summary.delta # Null

\* C10: percent changes in the bootstrap and artifact-size summaries are only
\* computed against a non-zero baseline.
C10_NonZeroBaseline ==
  setupPc = "ready" =>
    /\ (tabsDesc[Bootstrap].summary.delta # Null =>
          tabsDesc[Bootstrap].summary.delta.pctBase # 0)
    /\ (tabsDesc[ArtifactSize].summary.delta # Null =>
          tabsDesc[ArtifactSize].summary.delta.pctBase # 0)

C10_Witness ==
  /\ setupPc = "ready"
  /\ tabsDesc[Bootstrap].summary.delta # Null
  /\ tabsDesc[ArtifactSize].summary.delta # Null
====
